---- MODULE Spec2Model ----
(***************************************************************************)
(* Model of the hydra-installer Tauri backend (src-tauri/src/lib.rs):      *)
(* the start_download pipeline (HTTP GET, streaming to a temp file,        *)
(* progress events, installer run, cleanup) and the previous-installation  *)
(* cleanup commands (kill_hydra_process, delete_previous_installation,     *)
(* check_previous_installation).                                           *)
(*                                                                         *)
(* Conventions                                                             *)
(*  - Option<T> is a sequence: None == <<>>, Some(x) == <<x>>.             *)
(*  - f64 values are exact rationals [tag |-> "fin", num, den] plus the    *)
(*    IEEE specials [tag |-> "nan"] and [tag |-> "inf"].                   *)
(*  - Strings that the code scans (URLs, stderr) are token sequences.      *)
(*  - Time is in milliseconds.                                             *)
(*  - An entry of `emitted` is one call of window.emit; its field ok says  *)
(*    whether the call returned Ok.                                        *)
(***************************************************************************)
EXTENDS Integers, Sequences, FiniteSets, TLC

\* ---------------------------------------------------------------- bounds
MaxChunks == 3      \* items the body stream yields per invocation
MaxChunkLen == 2    \* bytes per chunk, 0..MaxChunkLen
MaxTotal == 2       \* declared content length, 0..MaxTotal
MaxCalls == 2       \* invocations of each cleanup command
MaxLaunches == 1    \* spawn attempts of launch_hydra
MaxKeys == 2        \* subkeys in the uninstall stores
MaxConcChunks == 1  \* chunks per invocation when two invocations interleave

\* ------------------------------------------------------- program constants
UpdateIntervalMs == 100   \* elapsed >= 0.1
CompletionSleepMs == 100  \* sleep before download-complete
KillSleepMs == 500        \* sleep between kill and removal
NotFoundExitCode == 128   \* taskkill: process not found

\* ------------------------------------------------------------ environment
Invocations == {1, 2}
Delays == {0, 50, 100}
ExitCodes == {0, 1, NotFoundExitCode}
Urls == { <<"https:", "", "host", "setup.exe">>,
          <<"https:", "", "mirror", "hydra.exe">>,
          <<"https:", "", "host", "dl", "">> }
Stderrs == { <<>>,
             <<"ERROR:", "process", "not", "found", ".">>,
             <<"process", "is", "not", "running">>,
             <<"ERROR:", "Access", "is", "denied", ".">>,
             <<"found", "not">> }

None == <<>>
Some(x) == <<x>>
IsSome(o) == Len(o) = 1
Unwrap(o) == o[1]

\* ------------------------------------------------------------- f64 values
Fin(n, d) == [tag |-> "fin", num |-> n, den |-> d]
NaN == [tag |-> "nan", num |-> 0, den |-> 1]
Inf == [tag |-> "inf", num |-> 0, den |-> 1]
MinusOne == Fin(-1, 1)
Zero == Fin(0, 1)

\* a as f64 / b as f64, for unsigned a, b
Div(a, b) == IF b = 0 THEN (IF a = 0 THEN NaN ELSE Inf) ELSE Fin(a, b)
\* x * k for a positive constant k
Scale(x, k) == IF x.tag = "fin" THEN Fin(x.num * k, x.den) ELSE x
IsPositive(x) == x.tag = "inf" \/ (x.tag = "fin" /\ x.num > 0)
FEq(x, y) == x.tag = "fin" /\ y.tag = "fin" /\ x.num * y.den = y.num * x.den
InRange(x, lo, hi) == x.tag = "fin" /\ lo * x.den <= x.num /\ x.num <= hi * x.den

\* --------------------------------------------------------- pure functions
\* url.split('/').last().unwrap_or("downloaded_file.exe")
FileNameOf(url) == IF Len(url) = 0 THEN "downloaded_file.exe" ELSE url[Len(url)]

FileNames == { FileNameOf(u) : u \in Urls }

\* speed in bytes per second; total_elapsed in milliseconds
SpeedOf(downloaded, total_elapsed) ==
    IF total_elapsed > 0 THEN Fin(downloaded * 1000, total_elapsed) ELSE Zero

PercentageNoSentinel(downloaded, total_size) ==
    IF IsSome(total_size)
    THEN Scale(Div(downloaded, Unwrap(total_size)), 100)
    ELSE Zero

PercentageOf(downloaded, total_size) ==
    IF IsSome(total_size)
    THEN Scale(Div(downloaded, Unwrap(total_size)), 100)
    ELSE MinusOne

\* a - b on u64: defined for a >= b only (a debug build panics, a release
\* build wraps otherwise)
Underflow == -1
USub(a, b) == IF a >= b THEN a - b ELSE Underflow

\* the eta is computed whenever bytes are left, also at speed 0
EtaNoSpeedGuard(downloaded, total_size, speed) ==
    IF IsSome(total_size)
    THEN IF downloaded < Unwrap(total_size)
         THEN Some(Fin(USub(Unwrap(total_size), downloaded) * speed.den,
                       speed.num))
         ELSE None
    ELSE None

\* lines 281-289: (total - downloaded) as f64 / speed
EtaOf(downloaded, total_size, speed) ==
    IF IsSome(total_size)
    THEN IF IsPositive(speed) /\ downloaded < Unwrap(total_size)
         THEN Some(Fin(USub(Unwrap(total_size), downloaded) * speed.den,
                       speed.num))
         ELSE None
    ELSE None

\* stderr.contains(pattern)
Contains(s, pat) ==
    \E k \in 1..(Len(s) + 1) :
        /\ k + Len(pat) - 1 <= Len(s)
        /\ SubSeq(s, k, k + Len(pat) - 1) = pat

\* write n bytes of invocation i at offset pos of a file's bytes
WriteAt(bytes, pos, n, i) ==
    LET newLen == IF pos + n > Len(bytes) /\ n > 0 THEN pos + n ELSE Len(bytes)
    IN [k \in 1..newLen |->
            IF k > pos /\ k <= pos + n THEN i
            ELSE IF k <= Len(bytes) THEN bytes[k] ELSE 0]

NoFile == [exists |-> FALSE, bytes |-> <<>>]
FileWith(b) == [exists |-> TRUE, bytes |-> b]

\* ------------------------------------------------------------------ state
VARIABLES
    windows,        \* cfg(target_os = "windows")
    now,            \* wall clock, ms
    files,          \* temp dir: file name -> [exists, bytes]
    emitted,        \* calls of window.emit, in order
    pc,             \* start_download: position of each invocation
    url,            \* start_download: url argument
    total_size,     \* response.content_length()
    downloaded,     \* running byte count
    received,       \* bytes the stream yielded in Ok chunks
    chunk,          \* length of the chunk being written
    chunksRead,     \* items yielded by stream.next()
    stream,         \* body stream: "unread" | "exhausted" | "failed"
    fileOpen,       \* the invocation holds its tokio File
    filePos,        \* write offset of the invocation's File
    start_time,
    last_update_time,
    result,         \* "none" | "Ok" | "Err"
    error_msg,      \* which Err was returned
    gets,           \* HTTP GETs issued
    spawns,         \* installer processes spawned
    exitCode,       \* Option: installer exit status
    removeResult,   \* "none" | "ok" | "failed": remove_file of the setup file
    \* cleanup commands
    dataDir,        \* "absent" | "dir" | "file": %APPDATA%\hydralauncher
    homeDir,        \* dirs::home_dir() is Some
    kresult, kcalls,               \* kill_hydra_process command
    dpc, dresult, derror, dcalls,  \* delete_previous_installation command
    dirAtStart,     \* dataDir when delete_previous_installation was invoked
    oplog,          \* system operations of the current delete invocation
    cresult, ccalls, \* check_previous_installation command
    \* installation lookup and launch
    registry,       \* the three uninstall stores, in scan order
    pathKind,       \* what is on disk at the located path
    gresult,        \* get_hydra_installation_path command
    lresult, lerror,           \* launch_hydra command
    lattempts,      \* paths handed to Command::spawn by launch_hydra
    procs           \* Hydra processes: "running" | "exited"

dlVars == <<now, files, emitted, pc, url, total_size, downloaded, received,
            chunk, chunksRead, stream, fileOpen, filePos, start_time,
            last_update_time, result, error_msg, gets, spawns, exitCode, removeResult>>
clVars == <<dataDir, homeDir, kresult, kcalls, dpc, dresult, derror, dcalls,
            dirAtStart, oplog, cresult, ccalls>>
locVars == <<registry, pathKind, gresult, lresult, lerror, lattempts, procs>>
vars == <<windows, dlVars, clVars, locVars>>

\* ----------------------------------------------------------------- events
Event(i, name, ok) ==
    [inv |-> i, name |-> name, ok |-> ok, downloaded |-> 0, total |-> None,
     percentage |-> Zero, speed |-> Zero, eta |-> None, error |-> "",
     code |-> None, at |-> 0]

ProgressEvent(i, ok, d, elapsed) ==
    LET speed == SpeedOf(d, elapsed)
    IN [Event(i, "download-progress", ok) EXCEPT
            !.at = now,
            !.downloaded = d,
            !.total = total_size[i],
            !.percentage = PercentageOf(d, total_size[i]),
            !.speed = speed,
            !.eta = EtaOf(d, total_size[i], speed)]

CompleteEvent(i, ok) ==
    [Event(i, "download-complete", ok) EXCEPT !.total = total_size[i]]

ErrorEvent(i, name, ok, msg) == [Event(i, name, ok) EXCEPT !.error = msg]

ExitEvent(i, ok, msg, c) ==
    [Event(i, "install-error", ok) EXCEPT !.error = msg, !.code = Some(c)]

Emit(ev) == emitted' = Append(emitted, ev)

\* every invocation downloads into the same file, whatever its url
FilePathFixed(i) == "setup.exe"

\* line 225: temp_dir.join(file_name)
FilePath(i) == FileNameOf(url[i])

\* return Err(msg)
ReturnErr(i, msg) ==
    /\ result' = [result EXCEPT ![i] = "Err"]
    /\ error_msg' = [error_msg EXCEPT ![i] = msg]
    /\ pc' = [pc EXCEPT ![i] = "done"]
    /\ fileOpen' = [fileOpen EXCEPT ![i] = FALSE]

\* ----------------------------------------------------------- start_download
TotalSizes == {None} \cup { Some(t) : t \in 0..MaxTotal }

\* lines 223-234: file name from the url, reqwest::get(url).await
HttpGet(i) ==
    /\ pc[i] = "idle"
    /\ \E u \in Urls, ok \in BOOLEAN, t \in TotalSizes :
        /\ url' = [url EXCEPT ![i] = u]
        /\ gets' = [gets EXCEPT ![i] = @ + 1]
        /\ IF ok
           THEN /\ total_size' = [total_size EXCEPT ![i] = t]
                /\ pc' = [pc EXCEPT ![i] = "create"]
                /\ UNCHANGED <<result, error_msg, fileOpen>>
           ELSE /\ ReturnErr(i, "Failed to start download")
                /\ UNCHANGED total_size
    /\ UNCHANGED <<locVars, windows, now, files, emitted, downloaded, received, chunk,
                   chunksRead, stream, filePos, start_time, last_update_time, spawns,
                   exitCode, removeResult, clVars>>

\* lines 235-244: tokio::fs::File::create(&file_path).await, Instant::now()
CreateFile(i) ==
    /\ pc[i] = "create"
    /\ \E ok \in BOOLEAN :
        IF ok /\ FilePath(i) # ""
        THEN /\ files' = [files EXCEPT ![FilePath(i)] = FileWith(<<>>)]
             /\ fileOpen' = [fileOpen EXCEPT ![i] = TRUE]
             /\ filePos' = [filePos EXCEPT ![i] = 0]
             /\ start_time' = [start_time EXCEPT ![i] = now]
             /\ last_update_time' = [last_update_time EXCEPT ![i] = now]
             /\ pc' = [pc EXCEPT ![i] = "stream"]
             /\ UNCHANGED <<result, error_msg>>
        ELSE /\ ReturnErr(i, "Failed to create file")
             /\ UNCHANGED <<files, filePos, start_time, last_update_time>>
    /\ UNCHANGED <<locVars, windows, now, emitted, url, total_size, downloaded, received,
                   chunk, chunksRead, stream, gets, spawns, exitCode, removeResult,
                   clVars>>

\* the loop ends and the File stays in scope until the command returns
StreamEndKeepsFile(i) ==
    /\ pc' = [pc EXCEPT ![i] = "complete"]
    /\ stream' = [stream EXCEPT ![i] = "exhausted"]
    /\ UNCHANGED <<emitted, result, error_msg, chunk, chunksRead, received,
                   files, fileOpen>>

\* line 246 None, lines 307-309: the stream is exhausted, drop(file), sleep
StreamEnd(i) ==
    /\ fileOpen' = [fileOpen EXCEPT ![i] = FALSE]
    /\ pc' = [pc EXCEPT ![i] = "complete"]
    /\ stream' = [stream EXCEPT ![i] = "exhausted"]
    /\ UNCHANGED <<emitted, result, error_msg, chunk, chunksRead, received,
                   files>>

\* the read error path resumes the loop instead of returning
ChunkReadErrorContinues(i) ==
    /\ \E ok \in BOOLEAN :
        Emit(ErrorEvent(i, "download-error", ok, "Download error"))
    /\ UNCHANGED <<pc, result, error_msg, fileOpen>>
    /\ UNCHANGED <<chunk, chunksRead, received, files, stream>>

\* the read error path discards the partial file
ChunkReadErrorDeletes(i) ==
    /\ \E ok \in BOOLEAN :
        Emit(ErrorEvent(i, "download-error", ok, "Download error"))
    /\ ReturnErr(i, "Download error")
    /\ stream' = [stream EXCEPT ![i] = "failed"]
    /\ files' = [files EXCEPT ![FilePath(i)] = NoFile]
    /\ UNCHANGED <<chunk, chunksRead, received>>

\* lines 249-253: Some(Err(e))
ChunkReadError(i) ==
    /\ \E ok \in BOOLEAN :
        Emit(ErrorEvent(i, "download-error", ok, "Download error"))
    /\ ReturnErr(i, "Download error")
    /\ stream' = [stream EXCEPT ![i] = "failed"]
    /\ UNCHANGED <<chunk, chunksRead, received, files>>

\* line 248: Some(Ok(chunk))
ChunkOk(i) ==
    /\ chunksRead[i] < MaxChunks
    /\ \E n \in 0..MaxChunkLen :
        /\ chunk' = [chunk EXCEPT ![i] = n]
        /\ received' = [received EXCEPT ![i] = @ + n]
    /\ chunksRead' = [chunksRead EXCEPT ![i] = @ + 1]
    /\ pc' = [pc EXCEPT ![i] = "write"]
    /\ UNCHANGED <<emitted, result, error_msg, fileOpen, files, stream>>

\* line 246: stream.next().await
StreamNext(i) ==
    /\ pc[i] = "stream"
    /\ \E d \in Delays : now' = now + d
    /\ \/ StreamEnd(i)
       \/ ChunkReadError(i)
       \/ ChunkOk(i)
    /\ UNCHANGED <<locVars, windows, url, total_size, downloaded, filePos, start_time,
                   last_update_time, gets, spawns, exitCode, removeResult,
                   clVars>>

\* the bytes of the open File after writing n more bytes
Written(i, n) ==
    IF files[FilePath(i)].exists
    THEN [files EXCEPT ![FilePath(i)] =
            FileWith(WriteAt(files[FilePath(i)].bytes, filePos[i], n, i))]
    ELSE files

\* a failed write is reported and the loop goes on with the next chunk
WriteErrorContinues(i) ==
    /\ chunk[i] > 0
    /\ \E k \in 0..(chunk[i] - 1) :
        /\ files' = Written(i, k)
        /\ filePos' = [filePos EXCEPT ![i] = @ + k]
    /\ \E ok \in BOOLEAN :
        Emit(ErrorEvent(i, "download-error", ok, "Write error"))
    /\ pc' = [pc EXCEPT ![i] = "stream"]
    /\ UNCHANGED <<downloaded, last_update_time, result, error_msg, fileOpen>>

\* lines 256-260: file.write_all(&chunk).await fails after k bytes
WriteError(i) ==
    /\ chunk[i] > 0
    /\ \E k \in 0..(chunk[i] - 1) :
        /\ files' = Written(i, k)
        /\ filePos' = [filePos EXCEPT ![i] = @ + k]
    /\ \E ok \in BOOLEAN :
        Emit(ErrorEvent(i, "download-error", ok, "Write error"))
    /\ ReturnErr(i, "Write error")
    /\ UNCHANGED <<downloaded, last_update_time>>

\* the time of the last snapshot is never recorded
WriteOkStaleClock(i) ==
    LET d == downloaded[i] + chunk[i]
        elapsed == now - last_update_time[i]
        total_elapsed == now - start_time[i]
    IN /\ files' = Written(i, chunk[i])
       /\ filePos' = [filePos EXCEPT ![i] = @ + chunk[i]]
       /\ downloaded' = [downloaded EXCEPT ![i] = d]
       /\ IF elapsed >= UpdateIntervalMs
          THEN \E ok \in BOOLEAN :
                /\ Emit(ProgressEvent(i, ok, d, total_elapsed))
                /\ IF ok
                   THEN /\ UNCHANGED last_update_time
                        /\ pc' = [pc EXCEPT ![i] = "stream"]
                        /\ UNCHANGED <<result, error_msg, fileOpen>>
                   ELSE /\ ReturnErr(i, "Failed to emit progress")
                        /\ UNCHANGED last_update_time
          ELSE /\ pc' = [pc EXCEPT ![i] = "stream"]
               /\ UNCHANGED <<emitted, last_update_time, result, error_msg,
                              fileOpen>>

\* lines 256-304: the chunk is written, the count advances, a snapshot is
\* emitted when at least 100ms passed since the last one
WriteOk(i) ==
    LET d == downloaded[i] + chunk[i]
        elapsed == now - last_update_time[i]
        total_elapsed == now - start_time[i]
    IN /\ files' = Written(i, chunk[i])
       /\ filePos' = [filePos EXCEPT ![i] = @ + chunk[i]]
       /\ downloaded' = [downloaded EXCEPT ![i] = d]
       /\ IF elapsed >= UpdateIntervalMs
          THEN \E ok \in BOOLEAN :
                /\ Emit(ProgressEvent(i, ok, d, total_elapsed))
                /\ IF ok
                   THEN /\ last_update_time' =
                                [last_update_time EXCEPT ![i] = now]
                        /\ pc' = [pc EXCEPT ![i] = "stream"]
                        /\ UNCHANGED <<result, error_msg, fileOpen>>
                   ELSE /\ ReturnErr(i, "Failed to emit progress")
                        /\ UNCHANGED last_update_time
          ELSE /\ pc' = [pc EXCEPT ![i] = "stream"]
               /\ UNCHANGED <<emitted, last_update_time, result, error_msg,
                              fileOpen>>

WriteChunk(i) ==
    /\ pc[i] = "write"
    /\ \/ WriteError(i)
       \/ WriteOk(i)
    /\ UNCHANGED <<locVars, windows, now, url, total_size, received, chunk, chunksRead,
                   stream, start_time, gets, spawns, exitCode, removeResult, clVars>>

\* lines 309-319 and 369-372: after the sleep, emit download-complete; a
\* build for another platform returns Err here
EmitComplete(i) ==
    /\ pc[i] = "complete"
    /\ now' = now + CompletionSleepMs
    /\ \E ok \in BOOLEAN :
        /\ Emit(CompleteEvent(i, ok))
        /\ IF ~ok THEN ReturnErr(i, "Failed to emit completion")
           ELSE IF ~windows
                THEN ReturnErr(i, "Installation is only supported on Windows")
                ELSE /\ pc' = [pc EXCEPT ![i] = "spawn"]
                     /\ UNCHANGED <<result, error_msg, fileOpen>>
    /\ UNCHANGED <<locVars, windows, files, url, total_size, downloaded, received, chunk,
                   chunksRead, stream, filePos, start_time, last_update_time, gets,
                   spawns, exitCode, removeResult, clVars>>

\* lines 325-329 and 356-365: cmd.spawn()
SpawnInstaller(i) ==
    /\ pc[i] = "spawn"
    /\ \E ok \in BOOLEAN :
        IF ok /\ files[FilePath(i)].exists
        THEN /\ spawns' = [spawns EXCEPT ![i] = @ + 1]
             /\ pc' = [pc EXCEPT ![i] = "wait"]
             /\ UNCHANGED <<emitted, result, error_msg, fileOpen>>
        ELSE /\ \E eok \in BOOLEAN :
                Emit(ErrorEvent(i, "install-error", eok,
                                "Failed to start installer"))
             /\ ReturnErr(i, "Failed to start installer")
             /\ UNCHANGED spawns
    /\ UNCHANGED <<locVars, windows, now, files, url, total_size, downloaded, received,
                   chunk, chunksRead, stream, filePos, start_time, last_update_time,
                   gets, exitCode, removeResult, clVars>>

\* lines 331-334: child.wait().await fails
WaitError(i) ==
    /\ ReturnErr(i, "Failed to wait for installer")
    /\ UNCHANGED <<emitted, exitCode>>

\* lines 336 and 345-354: the exit status
WaitOk(i) ==
    \E c \in ExitCodes :
        /\ exitCode' = [exitCode EXCEPT ![i] = Some(c)]
        /\ IF c = 0
           THEN /\ pc' = [pc EXCEPT ![i] = "cleanup"]
                /\ UNCHANGED <<emitted, result, error_msg, fileOpen>>
           ELSE /\ \E eok \in BOOLEAN :
                    Emit(ExitEvent(i, eok, "Installer exited with code", c))
                /\ ReturnErr(i, "Installer exited with code")

WaitInstaller(i) ==
    /\ pc[i] = "wait"
    /\ \/ WaitError(i)
       \/ WaitOk(i)
    /\ UNCHANGED <<locVars, windows, now, files, url, total_size, downloaded, received,
                   chunk, chunksRead, stream, filePos, start_time, last_update_time,
                   gets, spawns, removeResult, clVars>>

\* a failed deletion of the setup file fails the command
RemoveSetupFileFatal(i) ==
    /\ pc[i] = "cleanup"
    /\ \E ok \in BOOLEAN :
        IF ok /\ files[FilePath(i)].exists
        THEN /\ files' = [files EXCEPT ![FilePath(i)] = NoFile]
             /\ removeResult' = [removeResult EXCEPT ![i] = "ok"]
             /\ \E eok \in BOOLEAN : Emit(Event(i, "install-complete", eok))
             /\ result' = [result EXCEPT ![i] = "Ok"]
             /\ pc' = [pc EXCEPT ![i] = "done"]
             /\ UNCHANGED <<error_msg, fileOpen>>
        ELSE /\ removeResult' = [removeResult EXCEPT ![i] = "failed"]
             /\ ReturnErr(i, "Failed to delete setup file")
             /\ UNCHANGED <<files, emitted>>
    /\ UNCHANGED <<locVars, windows, now, url, total_size, downloaded, received, chunk,
                   chunksRead, stream, filePos, start_time, last_update_time, gets,
                   spawns, exitCode, clVars>>

\* lines 336-344 and 374: remove_file(&file_path).await, install-complete, Ok
RemoveSetupFile(i) ==
    /\ pc[i] = "cleanup"
    /\ \E ok \in BOOLEAN :
        IF ok /\ files[FilePath(i)].exists
        THEN /\ files' = [files EXCEPT ![FilePath(i)] = NoFile]
             /\ removeResult' = [removeResult EXCEPT ![i] = "ok"]
        ELSE /\ removeResult' = [removeResult EXCEPT ![i] = "failed"]
             /\ UNCHANGED files
    /\ \E eok \in BOOLEAN : Emit(Event(i, "install-complete", eok))
    /\ result' = [result EXCEPT ![i] = "Ok"]
    /\ pc' = [pc EXCEPT ![i] = "done"]
    /\ UNCHANGED <<locVars, windows, now, url, total_size, downloaded, received, chunk,
                   chunksRead, stream, fileOpen, filePos, start_time,
                   last_update_time, error_msg, gets, spawns, exitCode, clVars>>

StartDownload(i) ==
    \/ HttpGet(i)
    \/ CreateFile(i)
    \/ StreamNext(i)
    \/ WriteChunk(i)
    \/ EmitComplete(i)
    \/ SpawnInstaller(i)
    \/ WaitInstaller(i)
    \/ RemoveSetupFile(i)

\* -------------------------------------------------------- cleanup commands
\* Command::new("taskkill").output().await: the tool could not be executed,
\* or it ran and left an exit code and a stderr text
NotExecuted == [ran |-> FALSE, code |-> 0, stderr |-> <<>>]
TaskkillOutcomes ==
    {NotExecuted} \cup [ran : {TRUE}, code : ExitCodes, stderr : Stderrs]

\* only a zero exit status counts as "not running"
KillResultNo128(win, tk) ==
    IF ~win THEN "Err"
    ELSE IF ~tk.ran THEN "Err"
    ELSE IF tk.code = 0 THEN "Ok"
    ELSE IF Contains(tk.stderr, <<"not", "found">>)
            \/ Contains(tk.stderr, <<"not", "running">>) THEN "Ok"
    ELSE "Err"

\* lines 144-164: the value kill_hydra_process returns
KillResult(win, tk) ==
    IF ~win THEN "Err"
    ELSE IF ~tk.ran THEN "Err"
    ELSE IF tk.code = 0 \/ tk.code = NotFoundExitCode THEN "Ok"
    ELSE IF Contains(tk.stderr, <<"not", "found">>)
            \/ Contains(tk.stderr, <<"not", "running">>) THEN "Ok"
    ELSE "Err"

\* the outcomes of the tool on this build: it is never started elsewhere
ToolOutcomes == IF windows THEN TaskkillOutcomes ELSE {NotExecuted}

\* lines 134-165: the kill_hydra_process command
KillHydraProcess ==
    /\ kcalls < MaxCalls
    /\ kcalls' = kcalls + 1
    /\ \E tk \in ToolOutcomes :
        kresult' = [res |-> KillResult(windows, tk), tool |-> tk]
    /\ UNCHANGED <<locVars, windows, dlVars, dataDir, homeDir, dpc, dresult, derror,
                   dcalls, dirAtStart, oplog, cresult, ccalls>>

\* lines 31-40: the check_previous_installation command
CheckPreviousInstallation ==
    /\ ccalls < MaxCalls
    /\ ccalls' = ccalls + 1
    /\ cresult' = IF ~homeDir THEN "Err"
                  ELSE IF dataDir = "dir" THEN "true" ELSE "false"
    /\ UNCHANGED <<locVars, windows, dlVars, dataDir, homeDir, kresult, kcalls, dpc,
                   dresult, derror, dcalls, dirAtStart, oplog>>

KillOp(tk, res) == [op |-> "taskkill", tool |-> tk, res |-> res]
RemoveOp(res) == [op |-> "remove_dir_all", tool |-> NotExecuted, res |-> res]

\* the result of the kill is dropped and the removal goes ahead
DeleteKillIgnoresFailure ==
    /\ dpc = "idle"
    /\ dcalls < MaxCalls
    /\ dcalls' = dcalls + 1
    /\ dirAtStart' = dataDir
    /\ \E tk \in ToolOutcomes :
        /\ oplog' = IF windows THEN <<KillOp(tk, KillResult(windows, tk))>>
                    ELSE <<>>
        /\ dresult' = "none" /\ derror' = "" /\ dpc' = "sleep"
    /\ UNCHANGED <<locVars, windows, dlVars, dataDir, homeDir, kresult, kcalls, cresult,
                   ccalls>>

\* line 169: kill_hydra_process().await?
DeleteKill ==
    /\ dpc = "idle"
    /\ dcalls < MaxCalls
    /\ dcalls' = dcalls + 1
    /\ dirAtStart' = dataDir
    /\ \E tk \in ToolOutcomes :
        /\ oplog' = IF windows THEN <<KillOp(tk, KillResult(windows, tk))>>
                    ELSE <<>>
        /\ IF KillResult(windows, tk) = "Ok"
           THEN dresult' = "none" /\ derror' = "" /\ dpc' = "sleep"
           ELSE dresult' = "Err" /\ derror' = "kill" /\ dpc' = "idle"
    /\ UNCHANGED <<locVars, windows, dlVars, dataDir, homeDir, kresult, kcalls, cresult,
                   ccalls>>

\* a failed removal is not reported
DeleteRemoveSwallowsFailure ==
    /\ dpc = "sleep"
    /\ dpc' = "idle"
    /\ now' = now + KillSleepMs
    /\ IF ~homeDir
       THEN /\ dresult' = "Err" /\ derror' = "Failed to get home directory"
            /\ UNCHANGED <<dataDir, oplog>>
       ELSE IF dataDir = "dir"
       THEN \E ok \in BOOLEAN :
              /\ dataDir' = (IF ok THEN "absent" ELSE dataDir)
              /\ oplog' = Append(oplog, RemoveOp(IF ok THEN "Ok" ELSE "Err"))
              /\ dresult' = "Ok" /\ derror' = ""
       ELSE /\ dresult' = "Ok" /\ derror' = ""
            /\ UNCHANGED <<dataDir, oplog>>
    /\ UNCHANGED <<locVars, windows, files, emitted, pc, url, total_size, downloaded,
                   received, chunk, chunksRead, stream, fileOpen, filePos,
                   start_time, last_update_time, result, error_msg, gets, spawns, exitCode,
                   removeResult, homeDir, kresult, kcalls, dcalls, dirAtStart,
                   cresult, ccalls>>

\* lines 171-185: the sleep, the home directory, the conditional removal
DeleteRemove ==
    /\ dpc = "sleep"
    /\ dpc' = "idle"
    /\ now' = now + KillSleepMs
    /\ IF ~homeDir
       THEN /\ dresult' = "Err" /\ derror' = "Failed to get home directory"
            /\ UNCHANGED <<dataDir, oplog>>
       ELSE IF dataDir = "dir"
       THEN \E ok \in BOOLEAN :
              IF ok
              THEN /\ dataDir' = "absent"
                   /\ oplog' = Append(oplog, RemoveOp("Ok"))
                   /\ dresult' = "Ok" /\ derror' = ""
              ELSE /\ oplog' = Append(oplog, RemoveOp("Err"))
                   /\ dresult' = "Err"
                   /\ derror' = "Failed to delete previous installation"
                   /\ UNCHANGED dataDir
       ELSE /\ dresult' = "Ok" /\ derror' = ""
            /\ UNCHANGED <<dataDir, oplog>>
    /\ UNCHANGED <<locVars, windows, files, emitted, pc, url, total_size, downloaded,
                   received, chunk, chunksRead, stream, fileOpen, filePos,
                   start_time, last_update_time, result, error_msg, gets, spawns, exitCode,
                   removeResult, homeDir, kresult, kcalls, dcalls, dirAtStart,
                   cresult, ccalls>>

\* ---------------------------------------------- installation lookup, launch
\* registry strings are token sequences: a token is a quote, a space, a
\* backslash, a comma, or a run of other characters
Q == "\""
SP == " "
BS == "\\"
COMMA == ","
Drives == {"C:", "D:", "E:"}

RECURSIVE TrimStart(_, _)
TrimStart(s, t) ==
    IF s # <<>> /\ Head(s) = t THEN TrimStart(Tail(s), t) ELSE s

RECURSIVE TrimEnd(_, _)
TrimEnd(s, t) ==
    IF s # <<>> /\ s[Len(s)] = t
    THEN TrimEnd(SubSeq(s, 1, Len(s) - 1), t) ELSE s

\* str::trim (the only whitespace is the space)
Trim(s) == TrimEnd(TrimStart(s, SP), SP)

\* str::trim_matches(c)
TrimMatches(s, c) == TrimEnd(TrimStart(s, c), c)

\* the part of s before the first token t, all of s when there is none
RECURSIVE TakeUntil(_, _)
TakeUntil(s, t) ==
    IF s = <<>> \/ Head(s) = t THEN <<>>
    ELSE <<Head(s)>> \o TakeUntil(Tail(s), t)

\* str::split_whitespace().next()
FirstWord(s) ==
    LET r == TrimStart(s, SP)
    IN IF r = <<>> THEN None ELSE Some(TakeUntil(r, SP))

\* std::path::Path::parent
Parent(p) ==
    IF p = <<>> \/ p = <<BS>> THEN None
    ELSE IF \E d \in Drives : p = <<d>> \/ TrimEnd(p, BS) = <<d>> THEN None
    ELSE LET q == TrimEnd(p, BS)
             seps == { k \in 1..Len(q) : q[k] = BS }
         IN IF seps = {} THEN Some(<<>>)
            ELSE LET k == CHOOSE x \in seps : \A y \in seps : y <= x
                     pre == TrimEnd(SubSeq(q, 1, k - 1), BS)
                 IN IF pre = <<>> THEN Some(<<BS>>)
                    ELSE IF \E d \in Drives : pre = <<d>>
                         THEN Some(pre \o <<BS>>)
                    ELSE Some(pre)

\* std::path::Path::join
Join(dir, name) ==
    IF dir = <<>> THEN name
    ELSE IF dir[Len(dir)] = BS THEN dir \o name
    ELSE dir \o <<BS>> \o name

HydraExe == <<"Hydra.exe">>

\* lines 99-104: trim, trim_matches('"'), split_whitespace().next()
UninstallPath(u) ==
    LET w == FirstWord(TrimMatches(Trim(u), Q))
    IN IF IsSome(w) THEN Unwrap(w) ELSE u

\* lines 96-110: UninstallString -> parent directory joined with Hydra.exe
FromUninstall(e) ==
    IF IsSome(e.UninstallString)
    THEN LET par == Parent(UninstallPath(Unwrap(e.UninstallString)))
         IN IF IsSome(par) THEN Some(Join(Unwrap(par), HydraExe)) ELSE None
    ELSE None

\* lines 113-119: DisplayIcon -> parent directory of the part before a comma
FromIcon(e) ==
    IF IsSome(e.DisplayIcon)
    THEN Parent(TakeUntil(Unwrap(e.DisplayIcon), COMMA))
    ELSE None

\* the display icon is tried before the uninstall command
EntryPathIconFirst(e) ==
    IF IsSome(e.InstallLocation) /\ Unwrap(e.InstallLocation) # <<>>
    THEN e.InstallLocation
    ELSE IF IsSome(FromIcon(e)) THEN FromIcon(e)
    ELSE FromUninstall(e)

\* lines 88-119: InstallLocation, then UninstallString, then DisplayIcon
EntryPath(e) ==
    IF IsSome(e.InstallLocation) /\ Unwrap(e.InstallLocation) # <<>>
    THEN e.InstallLocation
    ELSE IF IsSome(FromUninstall(e)) THEN FromUninstall(e)
    ELSE FromIcon(e)

\* lines 72-87: the subkey opens, has both values, and they match exactly
Matches(e) ==
    /\ e.opens
    /\ e.DisplayName = Some("Hydra")
    /\ e.Publisher = Some("Los Broxas")

\* lines 71-121: the entries of one store from position k on
RECURSIVE ScanEntries(_, _)
ScanEntries(keys, k) ==
    IF k > Len(keys) THEN None
    ELSE IF Matches(keys[k]) /\ IsSome(EntryPath(keys[k]))
         THEN EntryPath(keys[k])
    ELSE ScanEntries(keys, k + 1)

\* lines 64-122: the stores from position s on
RECURSIVE ScanStores(_, _)
ScanStores(reg, s) ==
    IF s > Len(reg) THEN None
    ELSE IF reg[s].opens /\ IsSome(ScanEntries(reg[s].keys, 1))
         THEN ScanEntries(reg[s].keys, 1)
    ELSE ScanStores(reg, s + 1)

\* lines 43-131: the value get_hydra_installation_path returns
Locate(win, reg) ==
    IF win THEN [status |-> "Ok", path |-> ScanStores(reg, 1)]
    ELSE [status |-> "Err", path |-> None]

\* lines 42-131: the get_hydra_installation_path command
GetHydraInstallationPath ==
    /\ gresult' = Locate(windows, registry)
    /\ UNCHANGED <<windows, dlVars, clVars, registry, pathKind, lresult,
                   lerror, lattempts, procs>>

Running(path) == [path |-> path, state |-> "running"]

\* without a registry entry a well-known path is launched
LaunchHydraFallback ==
    /\ Len(lattempts) < MaxLaunches
    /\ IF ~windows
       THEN /\ lresult' = "Err"
            /\ lerror' = "Launching Hydra is only supported on Windows"
            /\ UNCHANGED <<lattempts, procs>>
       ELSE LET found == Locate(windows, registry).path
                path == IF found = None
                        THEN <<"C:", BS, "Hydra", BS, "Hydra.exe">>
                        ELSE Unwrap(found)
            IN IF pathKind = "absent"
               THEN /\ lresult' = "Err"
                    /\ lerror' = "Hydra executable not found at"
                    /\ UNCHANGED <<lattempts, procs>>
               ELSE /\ lattempts' = Append(lattempts, path)
                    /\ \E ok \in BOOLEAN :
                        IF ok /\ pathKind = "file"
                        THEN /\ procs' = Append(procs, Running(path))
                             /\ lresult' = "Ok" /\ lerror' = ""
                        ELSE /\ lresult' = "Err"
                             /\ lerror' = "Failed to launch Hydra"
                             /\ UNCHANGED procs
    /\ UNCHANGED <<windows, dlVars, clVars, registry, pathKind, gresult>>

\* lines 188-219: the launch_hydra command
LaunchHydra ==
    /\ Len(lattempts) < MaxLaunches
    /\ IF ~windows
       THEN /\ lresult' = "Err"
            /\ lerror' = "Launching Hydra is only supported on Windows"
            /\ UNCHANGED <<lattempts, procs>>
       ELSE LET found == Locate(windows, registry).path
            IN IF found = None
               THEN /\ lresult' = "Err"
                    /\ lerror' = "Hydra installation not found in registry"
                    /\ UNCHANGED <<lattempts, procs>>
               ELSE IF pathKind = "absent"
               THEN /\ lresult' = "Err"
                    /\ lerror' = "Hydra executable not found at"
                    /\ UNCHANGED <<lattempts, procs>>
               ELSE /\ lattempts' = Append(lattempts, Unwrap(found))
                    /\ \E ok \in BOOLEAN :
                        IF ok /\ pathKind = "file"
                        THEN /\ procs' = Append(procs, Running(Unwrap(found)))
                             /\ lresult' = "Ok" /\ lerror' = ""
                        ELSE /\ lresult' = "Err"
                             /\ lerror' = "Failed to launch Hydra"
                             /\ UNCHANGED procs
    /\ UNCHANGED <<windows, dlVars, clVars, registry, pathKind, gresult>>

\* a launched Hydra process exits on its own
HydraExits ==
    /\ \E k \in 1..Len(procs) :
        /\ procs[k].state = "running"
        /\ procs' = [procs EXCEPT ![k].state = "exited"]
    /\ UNCHANGED <<windows, dlVars, clVars, registry, pathKind, gresult,
                   lresult, lerror, lattempts>>

\* ------------------------------------------------------------ initial state
DiskFileNames == FileNames \ {""}

\* the temp dir: nothing, or a setup file left by an earlier run
TempDirs ==
    { f \in [DiskFileNames -> {NoFile, FileWith(<<0>>)}] :
        \A n \in DiskFileNames \ {"setup.exe"} : f[n] = NoFile }

InitDownload ==
    /\ now = 0
    /\ emitted = <<>>
    /\ pc = [i \in Invocations |-> "idle"]
    /\ url = [i \in Invocations |-> <<>>]
    /\ total_size = [i \in Invocations |-> None]
    /\ downloaded = [i \in Invocations |-> 0]
    /\ received = [i \in Invocations |-> 0]
    /\ chunk = [i \in Invocations |-> 0]
    /\ chunksRead = [i \in Invocations |-> 0]
    /\ stream = [i \in Invocations |-> "unread"]
    /\ fileOpen = [i \in Invocations |-> FALSE]
    /\ filePos = [i \in Invocations |-> 0]
    /\ start_time = [i \in Invocations |-> 0]
    /\ last_update_time = [i \in Invocations |-> 0]
    /\ result = [i \in Invocations |-> "none"]
    /\ error_msg = [i \in Invocations |-> ""]
    /\ gets = [i \in Invocations |-> 0]
    /\ spawns = [i \in Invocations |-> 0]
    /\ exitCode = [i \in Invocations |-> None]
    /\ removeResult = [i \in Invocations |-> "none"]

InitCleanup ==
    /\ kresult = [res |-> "none", tool |-> NotExecuted] /\ kcalls = 0
    /\ dpc = "idle" /\ dresult = "none" /\ derror = "" /\ dcalls = 0
    /\ oplog = <<>>
    /\ cresult = "none" /\ ccalls = 0

InitLookup ==
    /\ gresult = [status |-> "none", path |-> None]
    /\ lresult = "none" /\ lerror = ""
    /\ lattempts = <<>>
    /\ procs = <<>>

NoRegistry == <<>>

\* one start_download invocation, on either build, the temp dir with or
\* without a setup file left by an earlier run
Init ==
    /\ windows \in BOOLEAN
    /\ files \in TempDirs
    /\ InitDownload
    /\ InitCleanup
    /\ dataDir = "absent" /\ dirAtStart = "absent"
    /\ homeDir = TRUE
    /\ InitLookup
    /\ registry = NoRegistry /\ pathKind = "absent"

Next == \E i \in {1} : StartDownload(i)

Spec == Init /\ [][Next]_vars

\* two start_download invocations running as concurrent tasks of the async
\* runtime, on a Windows build with an empty temp dir; every await is a
\* point where the other invocation may run
InitConcurrent ==
    /\ windows = TRUE
    /\ files = [f \in DiskFileNames |-> NoFile]
    /\ InitDownload
    /\ InitCleanup
    /\ dataDir = "absent" /\ dirAtStart = "absent"
    /\ homeDir = TRUE
    /\ InitLookup
    /\ registry = NoRegistry /\ pathKind = "absent"

\* the part of the behaviours that is explored: the first invocation
\* downloads host/setup.exe, the second one the same url or a file of
\* another name; bodies of at most MaxConcChunks chunks of unknown total
\* length; every window.emit succeeds
ConcurrentScope ==
    /\ pc[1] # "idle" => url[1] = <<"https:", "", "host", "setup.exe">>
    /\ pc[2] # "idle" => url[2] \in { <<"https:", "", "host", "setup.exe">>,
                                      <<"https:", "", "mirror", "hydra.exe">> }
    /\ \A i \in Invocations :
        /\ chunksRead[i] <= MaxConcChunks
        /\ total_size[i] = None
    /\ \A k \in 1..Len(emitted) : emitted[k].ok

\* a step of invocation i within the scope; chunks arrive without delay
ConcurrentDownload(i) ==
    \/ HttpGet(i) /\ ConcurrentScope'
    \/ CreateFile(i) /\ ConcurrentScope'
    \/ StreamNext(i) /\ now' = now /\ ConcurrentScope'
    \/ WriteChunk(i) /\ ConcurrentScope'
    \/ EmitComplete(i) /\ ConcurrentScope'
    \/ SpawnInstaller(i) /\ ConcurrentScope'
    \/ WaitInstaller(i) /\ ConcurrentScope'
    \/ RemoveSetupFile(i) /\ ConcurrentScope'

NextConcurrent == \E i \in Invocations : ConcurrentDownload(i)

SpecConcurrent == InitConcurrent /\ [][NextConcurrent]_vars

\* the cleanup commands, on either build, with or without a home directory
\* and a previous installation
InitCleanupCommands ==
    /\ windows \in BOOLEAN
    /\ files = [f \in DiskFileNames |-> NoFile]
    /\ InitDownload
    /\ InitCleanup
    /\ dataDir \in {"absent", "dir", "file"}
    /\ dirAtStart = dataDir
    /\ homeDir \in BOOLEAN
    /\ InitLookup
    /\ registry = NoRegistry /\ pathKind = "absent"

NextCleanup ==
    \/ KillHydraProcess
    \/ CheckPreviousInstallation
    \/ DeleteKill
    \/ DeleteRemove

SpecCleanup == InitCleanupCommands /\ [][NextCleanup]_vars

\* registry values
QuotedCmd == <<Q, "C:", BS, "Apps", BS, "X", BS, "Uninstall.exe", Q, SP, "/S">>
SpacedCmd == <<Q, "C:", BS, "Program", SP, "Files", BS, "Hydra", BS,
               "Uninstall.exe", Q, SP, "/S">>
PlainCmd == <<"E:", BS, "Y", BS, "Uninstall.exe", SP, "/S">>
IconValue == <<"D:", BS, "H", BS, "icon.ico", COMMA, "0">>
InstallDir == <<"C:", BS, "Apps", BS, "Hydra">>
OtherDir == <<"E:", BS, "Other">>

Key(name, pub, loc, cmd, icon) ==
    [opens |-> TRUE, DisplayName |-> name, Publisher |-> pub,
     InstallLocation |-> loc, UninstallString |-> cmd, DisplayIcon |-> icon]

Hydra(loc, cmd, icon) == Key(Some("Hydra"), Some("Los Broxas"), loc, cmd, icon)

\* the subkeys an uninstall store may hold
KeyPool ==
    { Hydra(Some(InstallDir), Some(PlainCmd), Some(IconValue)),
      Hydra(Some(<<>>), Some(QuotedCmd), Some(IconValue)),
      Hydra(None, Some(SpacedCmd), None),
      Hydra(None, None, Some(IconValue)),
      Hydra(None, Some(<<>>), Some(<<>>)),
      Key(Some("hydra"), Some("Los Broxas"), Some(OtherDir), None, None),
      Key(Some("Hydra"), Some("Someone"), Some(OtherDir), None, None),
      [Hydra(Some(OtherDir), None, None) EXCEPT !.opens = FALSE] }

Store(opens, keys) == [opens |-> opens, keys |-> keys]

\* open_subkey succeeds on every store or fails on the first one
StoreOpens == { <<TRUE, TRUE, TRUE>>, <<FALSE, TRUE, TRUE>> }

\* the three stores with at most MaxKeys subkeys in all
Registries ==
    UNION { { <<Store(o[1], a), Store(o[2], b), Store(o[3], c)>> :
                a \in [1..n[1] -> KeyPool], b \in [1..n[2] -> KeyPool],
                c \in [1..n[3] -> KeyPool] } :
            n \in { m \in [1..3 -> 0..MaxKeys] : m[1] + m[2] + m[3] <= MaxKeys },
            o \in StoreOpens }

\* the lookup and launch commands, on either build, over every registry
InitLookupCommands ==
    /\ windows \in BOOLEAN
    /\ files = [f \in DiskFileNames |-> NoFile]
    /\ InitDownload
    /\ InitCleanup
    /\ dataDir = "dir" /\ dirAtStart = "dir"
    /\ homeDir = TRUE
    /\ InitLookup
    /\ registry \in (IF windows THEN Registries ELSE {NoRegistry})
    /\ pathKind \in {"absent", "file", "dir"}

NextLookup ==
    \/ GetHydraInstallationPath
    \/ LaunchHydra
    \/ HydraExits

SpecLookup == InitLookupCommands /\ [][NextLookup]_vars

\* --------------------------------------------------------------- properties
\* calls of window.emit for event `name` made by invocation i
Count(i, name) ==
    Cardinality({ k \in 1..Len(emitted) :
                    emitted[k].inv = i /\ emitted[k].name = name })

\* the bytes a file holds after invocation i alone wrote n bytes to it
OwnBytes(i, n) == [k \in 1..n |-> i]

\* C1: every Err returned by start_download comes with exactly one emitted
\* error event (download-error or install-error).
C1_ErrIsAlsoEmitted ==
    \A i \in Invocations :
        result[i] = "Err" =>
            Count(i, "download-error") + Count(i, "install-error") = 1

\* C2: once the download phase of an invocation is over, exactly one of
\* download-complete and download-error was emitted, and no download-progress
\* event follows it.
C2_OneTerminalDownloadEvent ==
    \A i \in Invocations :
        pc[i] \in {"spawn", "wait", "cleanup", "done"} =>
            /\ Count(i, "download-complete") + Count(i, "download-error") = 1
            /\ \A k, m \in 1..Len(emitted) :
                (/\ emitted[k].inv = i /\ emitted[m].inv = i
                 /\ emitted[k].name \in {"download-complete", "download-error"}
                 /\ emitted[m].name = "download-progress") => m < k

\* C3: a download whose chunk read failed emitted exactly one download-error
\* and no download-complete, returned Err, and its destination file still
\* holds every byte written before the failure.
C3_InterruptedDownload ==
    \A i \in Invocations :
        stream[i] = "failed" =>
            /\ Count(i, "download-error") = 1
            /\ Count(i, "download-complete") = 0
            /\ result[i] = "Err"
            /\ files[FilePath(i)] = FileWith(OwnBytes(i, downloaded[i]))
            /\ downloaded[i] = received[i]

C3_Witness ==
    /\ stream[1] = "failed"
    /\ downloaded[1] > 1
    /\ pc[1] = "done"

\* the state in which the installer may be spawned
DownloadFinished(i) ==
    /\ stream[i] = "exhausted"
    /\ downloaded[i] = received[i]
    /\ files[FilePath(i)] = FileWith(OwnBytes(i, received[i]))
    /\ Count(i, "download-error") = 0
    /\ \E k \in 1..Len(emitted) :
        /\ emitted[k].inv = i
        /\ emitted[k].name = "download-complete"
        /\ emitted[k].ok

\* C4: the installer is spawned only after the stream was read to exhaustion
\* without error, every chunk was written and download-complete was emitted;
\* it is never spawned on a run where a chunk read or write failed.
C4_DownloadBeforeInstall ==
    [][\A i \in Invocations :
        spawns'[i] > spawns[i] => DownloadFinished(i)]_vars

C4_Witness ==
    /\ spawns[1] = 1
    /\ received[1] > 1

\* C7: when the installer exited with success, start_download emitted
\* install-complete and returned Ok, whether or not the setup file could be
\* deleted.
C7_CleanupNeverFatal ==
    \A i \in Invocations :
        (exitCode[i] = Some(0) /\ pc[i] = "done") =>
            /\ result[i] = "Ok"
            /\ Count(i, "install-complete") = 1
            /\ Count(i, "install-error") = 0

C7_Witness ==
    /\ exitCode[1] = Some(0)
    /\ removeResult[1] = "failed"
    /\ result[1] = "Ok"
    /\ files[FilePath(1)].exists

\* C8: on a run that spawned the installer exactly one of install-complete
\* and install-error is emitted; install-complete only after a success exit;
\* on a non-zero exit install-error carries the code, the command returns Err
\* and the setup file is kept.
C8_InstallOutcomeReported ==
    \A i \in Invocations :
        (spawns[i] > 0 /\ pc[i] = "done") =>
            /\ Count(i, "install-complete") + Count(i, "install-error") = 1
            /\ Count(i, "install-complete") = 1 => exitCode[i] = Some(0)
            /\ (IsSome(exitCode[i]) /\ exitCode[i] # Some(0)) =>
                /\ \E k \in 1..Len(emitted) :
                    /\ emitted[k].inv = i
                    /\ emitted[k].name = "install-error"
                    /\ emitted[k].code = exitCode[i]
                /\ result[i] = "Err"
                /\ files[FilePath(i)].exists

\* C9: without a Content-Length every download-progress event has no total,
\* percentage -1 and no eta, and download-complete has no total; a percentage
\* of -1 occurs only on events without a total.
C9_UnknownTotal ==
    \A k \in 1..Len(emitted) :
        LET e == emitted[k]
        IN /\ (e.name = "download-progress" /\ total_size[e.inv] = None) =>
                /\ e.total = None
                /\ e.percentage = MinusOne
                /\ e.eta = None
           /\ (e.name = "download-complete" /\ total_size[e.inv] = None) =>
                e.total = None
           /\ (e.name = "download-progress" /\ FEq(e.percentage, MinusOne)) =>
                e.total = None

C9_Witness ==
    /\ total_size[1] = None
    /\ Count(1, "download-progress") > 1
    /\ Count(1, "download-complete") = 1
    /\ downloaded[1] > 0

\* C10: a progress snapshot with a total and downloaded <= total (total = 0
\* included) has its percentage in [0, 100]; the percentage is -1 exactly
\* when there is no total.
C10_PercentageInRange ==
    \A k \in 1..Len(emitted) :
        LET e == emitted[k]
        IN e.name = "download-progress" =>
            /\ (IsSome(e.total) /\ e.downloaded <= Unwrap(e.total)) =>
                    InRange(e.percentage, 0, 100)
            /\ FEq(e.percentage, MinusOne) <=> e.total = None

\* the taskkill texts that say the process was not there
NotRunningTexts == { <<"ERROR:", "process", "not", "found", ".">>,
                     <<"process", "is", "not", "running">> }

ReportsNotRunning(tk) ==
    tk.ran /\ (tk.code = NotFoundExitCode \/ tk.stderr \in NotRunningTexts)

\* C5: delete_previous_installation runs the termination before it touches
\* the data directory; when the termination fails it returns Err, never calls
\* remove_dir_all and leaves the directory as it was.
C5_TerminateBeforeRemove ==
    /\ \A k \in 1..Len(oplog) :
        oplog[k].op = "remove_dir_all" =>
            /\ k = 2
            /\ oplog[1].op = "taskkill"
            /\ oplog[1].res = "Ok"
    /\ (Len(oplog) > 0 /\ oplog[1].res = "Err") =>
            (dresult = "Err" /\ derror = "kill" /\ dpc = "idle")
    /\ (dcalls > 0 /\ ~windows) => (dresult = "Err" /\ derror = "kill")
    /\ (dresult = "Err" /\ derror = "kill") =>
            /\ \A k \in 1..Len(oplog) : oplog[k].op # "remove_dir_all"
            /\ dataDir = dirAtStart

C5_Witness ==
    /\ Len(oplog) = 1
    /\ oplog[1].tool.ran
    /\ oplog[1].res = "Err"
    /\ dresult = "Err"
    /\ dataDir = "dir"

\* C6: kill_hydra_process returns Ok whenever taskkill ran and reported, by
\* its exit status or on stderr, that the process was not found or not
\* running; it returns Err only when taskkill was not executed or failed
\* with another report.
C6_NotRunningIsSuccess ==
    kcalls > 0 =>
        /\ ReportsNotRunning(kresult.tool) => kresult.res = "Ok"
        /\ kresult.res = "Err" =>
            \/ ~kresult.tool.ran
            \/ (kresult.tool.code # 0 /\ ~ReportsNotRunning(kresult.tool))

C6_Witness ==
    /\ kcalls > 0
    /\ kresult.tool.ran
    /\ kresult.tool.code = NotFoundExitCode
    /\ kresult.tool.stderr = <<"ERROR:", "Access", "is", "denied", ".">>
    /\ kresult.res = "Ok"

\* the download-progress events, by position in `emitted`
ProgressIdx(i) ==
    { k \in 1..Len(emitted) :
        emitted[k].inv = i /\ emitted[k].name = "download-progress" }

\* C11: a snapshot has no eta when the speed is 0, the total is absent or
\* downloaded >= total; otherwise eta * speed = total - downloaded. The
\* subtraction never underflows, also when more bytes arrive than declared.
C11_Eta ==
    \A k \in 1..Len(emitted) :
        LET e == emitted[k]
        IN e.name = "download-progress" =>
            IF \/ FEq(e.speed, Zero)
               \/ e.total = None
               \/ e.downloaded >= Unwrap(e.total)
            THEN e.eta = None
            ELSE /\ IsSome(e.eta)
                 /\ Unwrap(e.eta).tag = "fin"
                 /\ Unwrap(e.eta).den # 0
                 /\ Unwrap(e.eta).num >= 0
                 /\ Unwrap(e.eta).num * e.speed.num =
                        (Unwrap(e.total) - e.downloaded)
                            * Unwrap(e.eta).den * e.speed.den

C11_Witness ==
    \E k, m \in ProgressIdx(1) :
        /\ IsSome(emitted[k].eta)
        /\ IsSome(emitted[m].total)
        /\ emitted[m].downloaded > Unwrap(emitted[m].total)
        /\ emitted[m].eta = None

\* the time of the last snapshot of invocation i, or of its start
LastSnapshot(i) ==
    IF ProgressIdx(i) = {} THEN start_time[i]
    ELSE emitted[CHOOSE k \in ProgressIdx(i) :
                    \A m \in ProgressIdx(i) : m <= k].at

\* C12: two download-progress events of a session are at least 100ms apart,
\* the first is at least 100ms after the start, and a chunk written less
\* than 100ms after the last snapshot emits nothing but advances the count.
C12_Throttle ==
    /\ [](\A i \in Invocations : \A k \in ProgressIdx(i) :
            /\ emitted[k].at - start_time[i] >= UpdateIntervalMs
            /\ \A m \in ProgressIdx(i) :
                m < k => emitted[k].at - emitted[m].at >= UpdateIntervalMs)
    /\ [][\A i \in Invocations :
            (/\ pc[i] = "write" /\ pc'[i] = "stream"
             /\ now - LastSnapshot(i) < UpdateIntervalMs) =>
                /\ emitted' = emitted
                /\ downloaded'[i] = downloaded[i] + chunk[i]]_vars

C12_Witness ==
    /\ Cardinality(ProgressIdx(1)) = 2
    /\ now - LastSnapshot(1) = 50
    /\ pc[1] = "stream"
    /\ \A k \in ProgressIdx(1) : downloaded[1] > emitted[k].downloaded

\* the positions of the registry, store by store
Positions ==
    { p \in (1..Len(registry)) \X (1..MaxKeys + 1) :
        p[2] <= Len(registry[p[1]].keys) }

KeyAt(p) == registry[p[1]].keys[p[2]]

Earlier(p, q) == p[1] < q[1] \/ (p[1] = q[1] /\ p[2] < q[2])

\* the subkey can be read and names Hydra by Los Broxas
IsHydra(p) ==
    /\ registry[p[1]].opens
    /\ KeyAt(p).opens
    /\ KeyAt(p).DisplayName = Some("Hydra")
    /\ KeyAt(p).Publisher = Some("Los Broxas")

HasLocation(e) == IsSome(e.InstallLocation) /\ Unwrap(e.InstallLocation) # <<>>

\* the executable an uninstall command names: the text between the quotes
\* of a quoted command, else its first word
NamedExecutable(u) ==
    LET t == Trim(u)
    IN IF t # <<>> /\ Head(t) = Q THEN TakeUntil(Tail(t), Q)
       ELSE IF IsSome(FirstWord(t)) THEN Unwrap(FirstWord(t)) ELSE u


\* C13: for a matching entry whose only usable field is the uninstall
\* command, the result is the parent directory of the named executable (the
\* text between the quotes, spaces included, or else the first word) joined
\* with Hydra.exe.
C13_UninstallCommandPath ==
    gresult.status = "Ok" =>
        \A p \in Positions :
            (/\ IsHydra(p)
             /\ \A q \in Positions : IsHydra(q) => q = p
             /\ ~HasLocation(KeyAt(p))
             /\ IsSome(KeyAt(p).UninstallString)
             /\ KeyAt(p).DisplayIcon = None) =>
                LET exe == NamedExecutable(Unwrap(KeyAt(p).UninstallString))
                IN gresult.path = Some(Join(Unwrap(Parent(exe)), HydraExe))

\* the path an entry stands for: its install location, else the one from
\* its uninstall command, else the one from its display icon
Derived(e) ==
    IF HasLocation(e) THEN e.InstallLocation
    ELSE IF IsSome(e.UninstallString) /\ IsSome(FromUninstall(e))
         THEN FromUninstall(e)
    ELSE IF IsSome(e.DisplayIcon) THEN FromIcon(e)
    ELSE None

Yields(p) == IsHydra(p) /\ IsSome(Derived(KeyAt(p)))

\* C14: the result is the path of the first entry, in store order and then
\* enumeration order, that matches exactly and yields a path, by the
\* priority install location, uninstall command, display icon; entries that
\* yield nothing are skipped, and the result is absent only if none yields.
C14_FirstMatchWins ==
    gresult.status = "Ok" =>
        /\ gresult.path = None <=> \A p \in Positions : ~Yields(p)
        /\ \A p \in Positions :
            (Yields(p) /\ \A q \in Positions : Earlier(q, p) => ~Yields(q))
                => gresult.path = Derived(KeyAt(p))

C14_Witness ==
    /\ gresult.status = "Ok"
    /\ \E p, q \in Positions :
        /\ Earlier(q, p)
        /\ IsHydra(q) /\ ~Yields(q)
        /\ Yields(p)
        /\ ~HasLocation(KeyAt(p))
        /\ IsSome(KeyAt(p).DisplayIcon)
        /\ gresult.path = FromUninstall(KeyAt(p))
        /\ gresult.path # FromIcon(KeyAt(p))

EndsInHydraExe(path) == path # <<>> /\ path[Len(path)] = "Hydra.exe"

\* C15: every path the locator returns, and so every path launch_hydra
\* spawns, is the path of the installed executable Hydra.exe.
C15_LocatedIsExecutable ==
    /\ IsSome(gresult.path) => EndsInHydraExe(Unwrap(gresult.path))
    /\ \A k \in 1..Len(lattempts) : EndsInHydraExe(lattempts[k])

\* a step of launch_hydra that shows in the state
LaunchStep ==
    lresult' # lresult \/ lerror' # lerror \/ lattempts' # lattempts

\* C20: launch_hydra spawns only the path the locator returned, and only if
\* it exists; otherwise it returns Err and spawns nothing. It leaves the
\* installed files, the registry and the data directory as they were and
\* returns while the spawned process is still running.
C20_LaunchHydra ==
    [][LaunchStep =>
        LET found == Locate(windows, registry)
        IN /\ pathKind' = pathKind /\ dataDir' = dataDir
           /\ registry' = registry /\ files' = files
           /\ lattempts' # lattempts =>
                /\ found.status = "Ok" /\ IsSome(found.path)
                /\ pathKind # "absent"
                /\ lattempts' = Append(lattempts, Unwrap(found.path))
           /\ (found.status = "Err" \/ found.path = None
               \/ pathKind = "absent") =>
                (lresult' = "Err" /\ lattempts' = lattempts /\ procs' = procs)
           /\ procs' # procs =>
                /\ lresult' = "Ok"
                /\ procs' = Append(procs, Running(Unwrap(found.path)))
           /\ lresult' = "Ok" => procs' # procs]_vars

C20_Witness ==
    /\ lresult = "Ok"
    /\ Len(procs) = 1 /\ procs[1].state = "running"
    /\ lattempts = <<procs[1].path>>
    /\ pathKind = "file"

\* invocation i is between its File::create and its download-complete or
\* download-error event
InSession(i) == pc[i] \in {"stream", "write", "complete"}

\* C16 (as stated): under any interleaving of two concurrent start_download
\* invocations, also two whose URLs end in the same path segment, no step of
\* another invocation creates, truncates or writes the destination file of
\* a session between that session's file creation and its download-complete
\* or download-error event.
C16_ExclusiveOwnership ==
    [][\A i, j \in Invocations :
        (i # j /\ InSession(i) /\ pc'[j] # pc[j])
            => files'[FilePath(i)] = files[FilePath(i)]]_vars

\* C16 (amended): the destination file of a session is left alone by every
\* step of a concurrent invocation whose URL ends in a different path
\* segment; nothing keeps an invocation with the same last segment away
\* from it.
C16_OtherNamesExclusive ==
    [][\A i, j \in Invocations :
        (/\ i # j /\ InSession(i) /\ pc'[j] # pc[j]
         /\ FileNameOf(url'[j]) # FileNameOf(url[i]))
            => files'[FilePath(i)] = files[FilePath(i)]]_vars

\* two sessions of different file names are open together and each has
\* written into its own file
C16_Witness ==
    /\ InSession(1) /\ InSession(2)
    /\ FileNameOf(url[1]) # FileNameOf(url[2])
    /\ files[FilePath(1)].bytes = OwnBytes(1, downloaded[1])
    /\ files[FilePath(2)].bytes = OwnBytes(2, downloaded[2])
    /\ downloaded[1] > 0 /\ downloaded[2] > 0

\* a step of invocation i has failed: it returned Err, the body stream
\* failed, an error event was emitted, or a call of window.emit failed
Failed(i) ==
    \/ result[i] = "Err"
    \/ stream[i] = "failed"
    \/ \E k \in 1..Len(emitted) :
        /\ emitted[k].inv = i
        /\ \/ emitted[k].name \in {"download-error", "install-error"}
           \/ ~emitted[k].ok

\* C17: within one start_download invocation at most one HTTP GET is issued
\* and the installer is spawned at most once; once a step has failed the
\* invocation has returned, and no write, installer spawn, deletion of the
\* setup file or emission follows.
C17_FailureStops ==
    /\ [](\A i \in Invocations :
            /\ gets[i] <= 1 /\ spawns[i] <= 1
            /\ Failed(i) => (pc[i] = "done" /\ result[i] # "none"))
    /\ [][\A i \in Invocations : Failed(i) =>
            /\ pc'[i] = pc[i]
            /\ gets'[i] = gets[i] /\ spawns'[i] = spawns[i]
            /\ downloaded'[i] = downloaded[i] /\ filePos'[i] = filePos[i]
            /\ files'[FilePath(i)] = files[FilePath(i)]
            /\ removeResult'[i] = removeResult[i]
            /\ emitted' = emitted]_vars

\* a chunk write failed while the stream had more to give, and the
\* invocation returned with this error
C17_Witness ==
    /\ Failed(1)
    /\ error_msg[1] = "Write error"
    /\ gets[1] = 1 /\ spawns[1] = 0
    /\ stream[1] = "unread" /\ chunksRead[1] < MaxChunks
    /\ Count(1, "download-complete") = 0

RemoveStep == dpc = "sleep" /\ dpc' = "idle"

Removes == oplog' # oplog /\ oplog'[Len(oplog')].op = "remove_dir_all"

\* what the claim says of every case but the absent directory
RemovalRest ==
    /\ [](dresult = "Ok" => dataDir # "dir")
    /\ [][RemoveStep =>
            /\ (Removes /\ oplog'[Len(oplog')].res = "Err")
                    => (dresult' = "Err" /\ dataDir' = "dir")
            /\ Removes => dataDir = "dir"
            /\ dresult' = "Ok" => dataDir' # "dir"]_vars
    /\ [][(ccalls' = ccalls + 1 /\ dresult = "Ok") => cresult' = "false"]_vars

\* C19 (as stated): delete_previous_installation, its termination step
\* succeeded, returns Ok without deleting anything when the data directory
\* is absent, returns Err when the directory exists and its deletion fails,
\* and whenever it returns Ok the directory no longer exists, so that a
\* following check_previous_installation returns false.
C19_RemovalConditional ==
    /\ [][(RemoveStep /\ dataDir # "dir") =>
            (dresult' = "Ok" /\ ~Removes /\ dataDir' = dataDir)]_vars
    /\ RemovalRest

\* C19 (amended): the same, the Ok for an absent directory given also that
\* the home directory is found; when it is not, the command returns Err
\* and deletes nothing.
C19_RemovalGivenHome ==
    /\ [][(RemoveStep /\ dataDir # "dir") =>
            /\ ~Removes /\ dataDir' = dataDir
            /\ dresult' = (IF homeDir THEN "Ok" ELSE "Err")]_vars
    /\ RemovalRest

\* a previous installation was removed and the check that followed
\* reported none
C19_Witness ==
    /\ dresult = "Ok" /\ dpc = "idle"
    /\ dirAtStart = "dir" /\ dataDir = "absent"
    /\ Len(oplog) = 2 /\ oplog[2] = RemoveOp("Ok")
    /\ ccalls > 0 /\ cresult = "false"

====
